---------------------------- MODULE Spec2Model ----------------------------
(***************************************************************************)
(* SimpleConvNet (HW#2/HW#2.py): construction, predict / loss / accuracy / *)
(* gradient, parameter save / load, and the script's training loop.        *)
(*                                                                         *)
(* Tensors are records [shape, data] with data the row-major flattening;   *)
(* indices are 0-based as in the source.  Parameter tensors live in a      *)
(* heap (a sequence; an object's identity is its index), so that "the      *)
(* layer references the very tensor of self.params" is a statement about   *)
(* indices, and an in-place update is a write to one heap cell.            *)
(*                                                                         *)
(* Five specifications:                                                    *)
(*   SpecInit     the constructor over a range of constructor arguments    *)
(*   Spec         predict / loss / accuracy / gradient / update calls on   *)
(*                one constructed network                                  *)
(*   SpecAcc      accuracy over sample counts, batch sizes, label forms    *)
(*   SpecPersist  gradient / update / save_params / load_params calls      *)
(*   SpecTrain    the script's training loop (lines 165-204)               *)
(***************************************************************************)
EXTENDS Integers, Sequences, FiniteSets, TLC

VARIABLES
    args,            \* the constructor's arguments (input_dim, conv_param, sizes)
    built,           \* "pending", "ok", or the exception the constructor raised
    dims,            \* the constructor's derived sizes (its local variables)
    params,          \* self.params: key -> heap index
    heap,            \* the parameter tensors, by identity
    layers,          \* self.layers: layer name -> the layer's fields
    last_layer,      \* self.last_layer (SoftmaxWithLoss): its cache
    calls,           \* the layer methods the last operation called, in order
    ret,             \* the last operation and what it returned
    file,            \* params.pkl: <<>> when absent, else <<mapping>>
    optimizer,       \* the Adam instance: step counter, moments initialised
    grad,            \* the gradient mapping last returned by gradient()
    seen,            \* the first predict call since the parameters last changed:
                     \* <<[x, out, again]>>, its input, its scores, and whether
                     \* predict was called on that input again (<<>> when none)
    pc,              \* training loop: the next statement
    i,               \* training loop: the iteration index
    batch,           \* training loop: <<x_batch, t_batch>> of this iteration
    train_loss_list, \* training loop: the loss history
    train_acc_list,  \* training loop: the train accuracy history
    test_acc_list,   \* training loop: the test accuracy history
    steps            \* training loop: the network / optimizer calls made in
                     \* the current iteration, in order

vars == <<args, built, dims, params, heap, layers, last_layer, calls, ret,
          file, optimizer, grad, seen, pc, i, batch, train_loss_list,
          train_acc_list, test_acc_list, steps>>

netVars == <<params, heap, layers, last_layer>>
loopVars == <<pc, i, batch, train_loss_list, train_acc_list, test_acc_list, steps>>

---------------------------------------------------------------------------
(* Bounds of the model *)

\* largest input height / width the constructor is tried on
MaxDim == 28
\* largest number of samples of a batch handed to predict, loss, gradient
MaxN == 2
\* largest number of samples of a data set handed to accuracy in SpecAcc
AccN == 3
\* largest batch_size handed to accuracy in SpecAcc
MaxBatch == 3
\* accuracy's batch_size in Spec and SpecTrain (the default of line 91)
AccBatch == 2
\* largest number of optimizer updates in one behaviour of Spec
MaxUpdates == 1
\* iters_num of the training loop of SpecTrain (12000 on line 168)
MaxIters == 4
\* the number of training samples of SpecTrain (x_train.shape[0], line 169)
TrainN == 2

\* filter sizes, paddings, strides and filter counts the constructor is tried on
FilterSizes == {1, 2, 3, 5}
Pads == {0, 1}
Strides == {1, 2}
FilterNums == {1, 30}

---------------------------------------------------------------------------
(* Names *)

\* keys of self.params in insertion order
Keys == <<"W1", "b1", "W2", "b2", "W3", "b3", "W4", "b4">>
KeySet == {Keys[n] : n \in 1..Len(Keys)}

\* keys of self.layers in insertion order
LayerOrder == <<"Conv1", "Relu1", "Pool1", "Affine1", "Relu2", "Affine2",
                "Relu3", "Affine3">>
LayerSet == {LayerOrder[n] : n \in 1..Len(LayerOrder)}

\* the parameter-owning layers, as load_params enumerates them
ParamLayers == <<"Conv1", "Affine1", "Affine2", "Affine3">>

\* 'W' + str(i+1) and 'b' + str(i+1)
WKey(n) == Keys[2 * n - 1]
bKey(n) == Keys[2 * n]

---------------------------------------------------------------------------
(* Tensors *)

RECURSIVE Prod(_)
Prod(s) == IF s = <<>> THEN 1 ELSE Head(s) * Prod(Tail(s))

\* (data \o <<>> is data, as an enumerated sequence)
Tensor(shape, data) == [shape |-> shape, data |-> data \o <<>>]

\* np.zeros(n)
Zeros(n) == [k \in 1..n |-> 0] \o <<>>

EmptyMap == [k \in {} |-> 0]

---------------------------------------------------------------------------
(* The constructor, lines 25-72 *)

pool_height == 2
pool_width == 2
pool_stride == 2

\* the sizes with the pooling's output one short (no + 1)
DeriveShort(a) ==
    LET conv_output_height == (a.H - a.filter_size + 2 * a.pad) \div a.stride + 1
        conv_output_width == (a.W - a.filter_size + 2 * a.pad) \div a.stride + 1
        pool_output_height == (conv_output_height - pool_height) \div pool_stride
        pool_output_width == (conv_output_width - pool_width) \div pool_stride
    IN  [conv_output_height |-> conv_output_height,
         conv_output_width |-> conv_output_width,
         pool_output_height |-> pool_output_height,
         pool_output_width |-> pool_output_width,
         pool_output_size |-> a.filter_num * pool_output_height * pool_output_width]

\* lines 36-41
Derive(a) ==
    LET conv_output_height == (a.H - a.filter_size + 2 * a.pad) \div a.stride + 1
        conv_output_width == (a.W - a.filter_size + 2 * a.pad) \div a.stride + 1
        pool_output_height == (conv_output_height - pool_height) \div pool_stride + 1
        pool_output_width == (conv_output_width - pool_width) \div pool_stride + 1
    IN  [conv_output_height |-> conv_output_height,
         conv_output_width |-> conv_output_width,
         pool_output_height |-> pool_output_height,
         pool_output_width |-> pool_output_width,
         pool_output_size |-> a.filter_num * pool_output_height * pool_output_width]

\* lines 45-55: the shape of each parameter
ParamShape(a, d, key) ==
    CASE key = "W1" -> <<a.filter_num, a.C, a.filter_size, a.filter_size>>
      [] key = "b1" -> <<a.filter_num>>
      [] key = "W2" -> <<d.pool_output_size, a.hidden_size>>
      [] key = "b2" -> <<a.hidden_size>>
      [] key = "W3" -> <<a.hidden_size, a.hidden_size>>
      [] key = "b3" -> <<a.hidden_size>>
      [] key = "W4" -> <<a.hidden_size, a.output_size>>
      [] key = "b4" -> <<a.output_size>>

\* What the constructor ends with: np.random.randn raises ValueError on a
\* negative dimension (line 48), 2. / pool_output_size raises
\* ZeroDivisionError on 0 (line 48); nothing else is checked.
Outcome(a) ==
    LET d == Derive(a)
    IN  IF d.pool_output_size < 0 THEN "ValueError"
        ELSE IF d.pool_output_size = 0 THEN "ZeroDivisionError"
        ELSE "ok"

\* lines 44-55: the weights are the draw w (np.random.randn scaled), the
\* biases np.zeros
NewHeap(a, w) ==
    LET d == Derive(a)
    IN  [n \in 1..Len(Keys) |->
            Tensor(ParamShape(a, d, Keys[n]),
                   IF n % 2 = 1 THEN w[Keys[n]]
                   ELSE Zeros(Prod(ParamShape(a, d, Keys[n]))))]

\* line 44-55: self.params[key] is the tensor just made
NewParams == [k \in KeySet |-> CHOOSE n \in 1..Len(Keys) : Keys[n] = k]

\* the fields of a layer; a field a layer type does not have stays empty
\* (W, b = 0: no reference)
Layer(W, b) == [W |-> W, b |-> b, x |-> <<>>, aux |-> <<>>, dW |-> <<>>, db |-> <<>>]

\* lines 58-70: Convolution and Affine are handed self.params[...] itself
NewLayers(p) ==
    [l \in LayerSet |->
        CASE l = "Conv1" -> Layer(p["W1"], p["b1"])
          [] l = "Affine1" -> Layer(p["W2"], p["b2"])
          [] l = "Affine2" -> Layer(p["W3"], p["b3"])
          [] l = "Affine3" -> Layer(p["W4"], p["b4"])
          [] OTHER -> Layer(0, 0)]

\* line 72
NewLoss == [y |-> <<>>, t |-> <<>>]

NoRet == [op |-> "none"]
NewOptimizer == [iter |-> 0, m |-> FALSE, grads |-> <<>>]

\* SimpleConvNet(...) on the arguments args; the values np.random.randn
\* draws are left out here (the tensors keep their shapes only)
New ==
    /\ built = "pending"
    /\ built' = Outcome(args)
    /\ dims' = Derive(args)
    /\ IF Outcome(args) = "ok"
       THEN /\ params' = NewParams
            /\ heap' = NewHeap(args, [k \in KeySet |-> <<>>])
            /\ layers' = NewLayers(NewParams)
            /\ last_layer' = <<NewLoss>>
       ELSE UNCHANGED netVars
    /\ UNCHANGED <<args, calls, ret, file, optimizer, grad, seen, loopVars>>

---------------------------------------------------------------------------
(* The layers (common.layers): forward on integer tensors, backward as     *)
(* terms.  A term names the operation and holds exactly the values the     *)
(* result is computed from: the cached tensors and the upstream gradient.  *)

Term(op, targs, up) == [op |-> op, targs |-> targs, up |-> up]

\* dout = 1, line 123
One == Term("1", <<>>, <<>>)

Max2(a, b) == IF a >= b THEN a ELSE b

\* the patch of sample n whose corner is input position (r0, q0) times
\* filter f, summed over the first m of the C * FH * FW filter entries;
\* positions outside the input are the zero padding
RECURSIVE PatchDot(_, _, _, _, _, _, _)
PatchDot(x, W, n, f, r0, q0, m) ==
    IF m = 0 THEN 0
    ELSE LET C == x.shape[2]
             H == x.shape[3]
             Wd == x.shape[4]
             FH == W.shape[3]
             FW == W.shape[4]
             c == (m - 1) \div (FH * FW)
             r == r0 + (((m - 1) \div FW) % FH)
             q == q0 + ((m - 1) % FW)
         IN  (IF r < 0 \/ r >= H \/ q < 0 \/ q >= Wd THEN 0
              ELSE x.data[((n * C + c) * H + r) * Wd + q + 1]
                     * W.data[f * C * FH * FW + m])
             + PatchDot(x, W, n, f, r0, q0, m - 1)

\* Convolution.forward: zero padding, stride-spaced patches times the filters
\* plus bias; out_h = (H + 2*pad - FH) / stride + 1
ConvForward(x, W, b, stride, pad) ==
    LET N == x.shape[1]
        FN == W.shape[1]
        out_h == (x.shape[3] + 2 * pad - W.shape[3]) \div stride + 1
        out_w == (x.shape[4] + 2 * pad - W.shape[4]) \div stride + 1
        At(n, f, r, q) ==
            b.data[f + 1]
            + PatchDot(x, W, n, f, r * stride - pad, q * stride - pad,
                       x.shape[2] * W.shape[3] * W.shape[4])
    IN  Tensor(<<N, FN, out_h, out_w>>,
               [k \in 1..(N * FN * out_h * out_w) |->
                   At((k - 1) \div (FN * out_h * out_w),
                      ((k - 1) \div (out_h * out_w)) % FN,
                      ((k - 1) \div out_w) % out_h,
                      (k - 1) % out_w)])

\* Relu.forward: the mask of the entries that are zeroed
ReluMask(x) == Tensor(x.shape, [k \in 1..Len(x.data) |-> x.data[k] <= 0])
ReluForward(x) ==
    Tensor(x.shape, [k \in 1..Len(x.data) |-> IF x.data[k] <= 0 THEN 0 ELSE x.data[k]])

\* one pooling window, row-major: the pool_h * pool_w values of output
\* position (n, c, r, q)
PoolWindow(x, n, c, r, q) ==
    LET C == x.shape[2]
        H == x.shape[3]
        Wd == x.shape[4]
    IN  [k \in 1..(pool_height * pool_width) |->
            x.data[((n * C + c) * H + r * pool_stride + (k - 1) \div pool_width) * Wd
                   + q * pool_stride + ((k - 1) % pool_width) + 1]] \o <<>>

RECURSIVE MaxSeq(_)
MaxSeq(s) == IF Len(s) = 1 THEN s[1] ELSE Max2(Head(s), MaxSeq(Tail(s)))

\* np.argmax: the first index (0-based) of the maximum
ArgmaxSeq(s) == (CHOOSE k \in 1..Len(s) :
                    /\ s[k] = MaxSeq(s)
                    /\ \A k2 \in 1..(k - 1) : s[k2] # MaxSeq(s)) - 1

PoolShape(x) ==
    <<x.shape[1], x.shape[2], (x.shape[3] - pool_height) \div pool_stride + 1,
      (x.shape[4] - pool_width) \div pool_stride + 1>>

\* the window of the k-th entry of the pooling's output of shape s
PoolWindowOf(x, s, k) ==
    PoolWindow(x, (k - 1) \div (s[2] * s[3] * s[4]),
               ((k - 1) \div (s[3] * s[4])) % s[2],
               ((k - 1) \div s[4]) % s[3],
               (k - 1) % s[4])

\* Pooling.forward: the maximum of every window, and its position
PoolForward(x) ==
    Tensor(PoolShape(x),
           [k \in 1..Prod(PoolShape(x)) |-> MaxSeq(PoolWindowOf(x, PoolShape(x), k))])
PoolArgmax(x) ==
    Tensor(PoolShape(x),
           [k \in 1..Prod(PoolShape(x)) |-> ArgmaxSeq(PoolWindowOf(x, PoolShape(x), k))])

\* row n of x (N, D) times column j of W (D, K), summed over the first d
\* entries
RECURSIVE RowDot(_, _, _, _, _, _, _)
RowDot(x, W, n, j, D, K, d) ==
    IF d = 0 THEN 0
    ELSE x.data[n * D + d] * W.data[(d - 1) * K + j + 1]
         + RowDot(x, W, n, j, D, K, d - 1)

\* Affine.forward: x flattened to (N, D), x . W + b
AffineForward(x, W, b) ==
    LET N == x.shape[1]
        D == Prod(Tail(x.shape))
        K == W.shape[2]
    IN  Tensor(<<N, K>>,
               [k \in 1..(N * K) |->
                   RowDot(x, W, (k - 1) \div K, (k - 1) % K, D, K, D)
                   + b.data[((k - 1) % K) + 1]])

Kind(l) ==
    CASE l = "Conv1" -> "Convolution"
      [] l \in {"Relu1", "Relu2", "Relu3"} -> "Relu"
      [] l = "Pool1" -> "Pooling"
      [] OTHER -> "Affine"

\* layer.forward(x) of layer l with fields L: the output and the layer after
\* the call (its cache overwritten).  A layer reads its parameters through
\* its own references L.W, L.b.
Forward(l, L, hp, x) ==
    CASE Kind(l) = "Convolution" ->
            [out |-> ConvForward(x, hp[L.W], hp[L.b], args.stride, args.pad),
             layer |-> [L EXCEPT !.x = <<x>>]]
      [] Kind(l) = "Relu" ->
            [out |-> ReluForward(x), layer |-> [L EXCEPT !.aux = <<ReluMask(x)>>]]
      [] Kind(l) = "Pooling" ->
            [out |-> PoolForward(x),
             layer |-> [L EXCEPT !.x = <<x>>, !.aux = <<PoolArgmax(x)>>]]
      [] OTHER ->
            [out |-> AffineForward(x, hp[L.W], hp[L.b]),
             layer |-> [L EXCEPT !.x = <<x>>]]

\* layer.backward(dout): the input gradient and the layer after the call
\* (Convolution and Affine store dW, db on the instance)
Backward(l, L, hp, dout) ==
    CASE Kind(l) = "Convolution" ->
            [dx |-> Term("Convolution.dx", <<hp[L.W]>>, <<dout>>),
             layer |-> [L EXCEPT !.dW = <<Term("Convolution.dW", L.x, <<dout>>)>>,
                                 !.db = <<Term("Convolution.db", <<>>, <<dout>>)>>]]
      [] Kind(l) = "Relu" ->
            [dx |-> Term("Relu.dx", L.aux, <<dout>>), layer |-> L]
      [] Kind(l) = "Pooling" ->
            [dx |-> Term("Pooling.dx", L.aux, <<dout>>), layer |-> L]
      [] OTHER ->
            [dx |-> Term("Affine.dx", <<hp[L.W]>>, <<dout>>),
             layer |-> [L EXCEPT !.dW = <<Term("Affine.dW", L.x, <<dout>>)>>,
                                 !.db = <<Term("Affine.db", <<>>, <<dout>>)>>]]

\* SoftmaxWithLoss.forward(y, t): the cross entropy of softmax(y) against t,
\* and the cache
LossForward(y, t) ==
    [out |-> Term("SoftmaxWithLoss.loss", <<y, t>>, <<>>),
     layer |-> [y |-> <<y>>, t |-> <<t>>]]

\* SoftmaxWithLoss.backward(dout): (softmax(y) - t) / batch_size from the cache
LossBackward(ll, dout) == Term("SoftmaxWithLoss.dx", ll.y \o ll.t, <<dout>>)

---------------------------------------------------------------------------
(* SimpleConvNet's methods, lines 74-155.  Each takes the object's fields  *)
(* (ls = self.layers, ll = self.last_layer, hp = the tensors) and returns  *)
(* its result with the fields as the call leaves them and the layer calls  *)
(* it made.                                                                *)

RECURSIVE PredictFrom(_, _, _, _, _)
PredictFrom(n, ls, hp, x, log) ==
    IF n > Len(LayerOrder) THEN [out |-> x, layers |-> ls, calls |-> log]
    ELSE LET l == LayerOrder[n]
             r == Forward(l, ls[l], hp, x)
         IN  PredictFrom(n + 1, [ls EXCEPT ![l] = r.layer], hp, r.out,
                         Append(log, <<l, "forward">>))

\* predict that runs on the input Conv1 still caches, when it caches one
predictCached(ls, hp, x) ==
    PredictFrom(1, ls, hp, IF ls["Conv1"].x = <<>> THEN x ELSE ls["Conv1"].x[1], <<>>)

\* lines 74-78
predict(ls, hp, x) == PredictFrom(1, ls, hp, x, <<>>)

\* lines 80-89
loss(ls, hp, x, t) ==
    LET p == predict(ls, hp, x)
        f == LossForward(p.out, t)
    IN  [out |-> f.out, layers |-> p.layers, last_layer |-> f.layer,
         calls |-> Append(p.calls, <<"SoftmaxWithLoss", "forward">>)]

\* x[lo:hi] along the first axis
Slice(x, lo, hi) ==
    LET N == x.shape[1]
        a == IF lo > N THEN N ELSE lo
        b == IF hi > N THEN N ELSE hi
        D == Prod(Tail(x.shape))
    IN  Tensor(<<b - a>> \o Tail(x.shape), SubSeq(x.data, a * D + 1, b * D))

\* np.argmax(y, axis=1) of a 2-D tensor
Argmax1(y) ==
    LET N == y.shape[1]
        K == y.shape[2]
    IN  Tensor(<<N>>, [n \in 1..N |-> ArgmaxSeq(SubSeq(y.data, (n - 1) * K + 1, n * K))])

\* np.sum(y == tt)
CountEqual(y, tt) == Cardinality({n \in 1..Len(y.data) : y.data[n] = tt.data[n]})

RECURSIVE AccuracyFrom(_, _, _, _, _, _, _)
AccuracyFrom(c, r, hp, x, t, batch_size, nchunks) ==
    IF c >= nchunks THEN r
    ELSE LET tx == Slice(x, c * batch_size, (c + 1) * batch_size)
             tt == Slice(t, c * batch_size, (c + 1) * batch_size)
             p == predict(r.layers, hp, tx)
             y == Argmax1(p.out)
         IN  AccuracyFrom(c + 1,
                          [acc |-> r.acc + CountEqual(y, tt),
                           layers |-> p.layers,
                           calls |-> r.calls \o p.calls,
                           chunks |-> Append(r.chunks, tx)],
                          hp, x, t, batch_size, nchunks)

\* accuracy that also predicts the trailing partial chunk
accuracyCeil(ls, hp, x, t0, batch_size) ==
    LET t == IF Len(t0.shape) # 1 THEN Argmax1(t0) ELSE t0
        r == AccuracyFrom(0, [acc |-> 0, layers |-> ls, calls |-> <<>>, chunks |-> <<>>],
                          hp, x, t, batch_size,
                          (x.shape[1] + batch_size - 1) \div batch_size)
    IN  [out |-> <<r.acc, x.shape[1]>>, layers |-> r.layers, calls |-> r.calls,
         chunks |-> r.chunks]

\* lines 91-103; the quotient acc / x.shape[0] is the pair <<acc, x.shape[0]>>
accuracy(ls, hp, x, t0, batch_size) ==
    LET t == IF Len(t0.shape) # 1 THEN Argmax1(t0) ELSE t0
        r == AccuracyFrom(0, [acc |-> 0, layers |-> ls, calls |-> <<>>, chunks |-> <<>>],
                          hp, x, t, batch_size, x.shape[1] \div batch_size)
    IN  [out |-> <<r.acc, x.shape[1]>>, layers |-> r.layers, calls |-> r.calls,
         chunks |-> r.chunks]

RECURSIVE Reverse(_)
Reverse(s) == IF s = <<>> THEN <<>> ELSE Append(Reverse(Tail(s)), Head(s))

RECURSIVE BackwardFrom(_, _, _, _, _)
BackwardFrom(order, ls, hp, dout, log) ==
    IF order = <<>> THEN [layers |-> ls, calls |-> log]
    ELSE LET l == Head(order)
             r == Backward(l, ls[l], hp, dout)
         IN  BackwardFrom(Tail(order), [ls EXCEPT ![l] = r.layer], hp, r.dx,
                          Append(log, <<l, "backward">>))

\* the collection with each weight gradient taken from the next layer
CollectGradsShifted(ls) ==
    [k \in KeySet |->
        CASE k = "W1" -> ls["Affine1"].dW
          [] k = "b1" -> ls["Conv1"].db
          [] k = "W2" -> ls["Affine2"].dW
          [] k = "b2" -> ls["Affine1"].db
          [] k = "W3" -> ls["Affine3"].dW
          [] k = "b3" -> ls["Affine2"].db
          [] k = "W4" -> ls["Affine3"].dW
          [] k = "b4" -> ls["Affine3"].db]

\* lines 132-136
CollectGrads(ls) ==
    [k \in KeySet |->
        CASE k = "W1" -> ls["Conv1"].dW
          [] k = "b1" -> ls["Conv1"].db
          [] k = "W2" -> ls["Affine1"].dW
          [] k = "b2" -> ls["Affine1"].db
          [] k = "W3" -> ls["Affine2"].dW
          [] k = "b3" -> ls["Affine2"].db
          [] k = "W4" -> ls["Affine3"].dW
          [] k = "b4" -> ls["Affine3"].db]

\* gradient without layers.reverse() (line 127)
gradientUnreversed(ls, hp, x, t) ==
    LET f == loss(ls, hp, x, t)
        dout == LossBackward(f.last_layer, One)
        b == BackwardFrom(LayerOrder, f.layers, hp, dout,
                          Append(f.calls, <<"SoftmaxWithLoss", "backward">>))
    IN  [out |-> CollectGrads(b.layers), layers |-> b.layers,
         last_layer |-> f.last_layer, calls |-> b.calls]

\* lines 105-138
gradient(ls, hp, x, t) ==
    LET f == loss(ls, hp, x, t)
        dout == LossBackward(f.last_layer, One)
        b == BackwardFrom(Reverse(LayerOrder), f.layers, hp, dout,
                          Append(f.calls, <<"SoftmaxWithLoss", "backward">>))
    IN  [out |-> CollectGrads(b.layers), layers |-> b.layers,
         last_layer |-> f.last_layer, calls |-> b.calls]

\* lines 140-145: the mapping pickled, by value
save_params(p, hp) == [k \in DOMAIN p |-> hp[p[k]]]

\* load_params without lines 153-155: the layers keep their references
load_paramsUnbound(p, ls, hp, loaded) ==
    LET ks == SelectSeq(Keys, LAMBDA k : k \in DOMAIN loaded)
        NewId(k) == Len(hp) + (CHOOSE n \in 1..Len(ks) : ks[n] = k)
    IN  [params |-> [k \in DOMAIN p \cup DOMAIN loaded |->
                       IF k \in DOMAIN loaded THEN NewId(k) ELSE p[k]],
         heap |-> hp \o [n \in 1..Len(ks) |-> loaded[ks[n]]],
         layers |-> ls]

\* lines 147-155: every loaded tensor is a new object; self.params[key] is
\* set to it, then each parameter layer's W, b are set from self.params
load_params(p, ls, hp, loaded) ==
    LET ks == SelectSeq(Keys, LAMBDA k : k \in DOMAIN loaded)
        NewId(k) == Len(hp) + (CHOOSE n \in 1..Len(ks) : ks[n] = k)
        p1 == [k \in DOMAIN p \cup DOMAIN loaded |->
                  IF k \in DOMAIN loaded THEN NewId(k) ELSE p[k]]
        Owner(l) == CHOOSE n \in 1..Len(ParamLayers) : ParamLayers[n] = l
    IN  [params |-> p1,
         heap |-> hp \o [n \in 1..Len(ks) |-> loaded[ks[n]]],
         layers |-> [l \in DOMAIN ls |->
                       IF \E n \in 1..Len(ParamLayers) : ParamLayers[n] = l
                       THEN [ls[l] EXCEPT !.W = p1[WKey(Owner(l))],
                                          !.b = p1[bKey(Owner(l))]]
                       ELSE ls[l]]]

---------------------------------------------------------------------------
(* Object identity: tensors no field references any more are dropped and   *)
(* the rest renumbered in the order self.params, then the layers, name     *)
(* them.                                                                   *)

Refs(p, ls) ==
    [n \in 1..Len(Keys) |-> p[Keys[n]]]
    \o [n \in 1..Len(ParamLayers) |-> ls[ParamLayers[n]].W]
    \o [n \in 1..Len(ParamLayers) |-> ls[ParamLayers[n]].b]

RECURSIVE Dedup(_)
Dedup(s) ==
    IF s = <<>> THEN <<>>
    ELSE LET r == Dedup(SubSeq(s, 1, Len(s) - 1))
         IN  IF \E n \in 1..Len(r) : r[n] = s[Len(s)] THEN r ELSE Append(r, s[Len(s)])

Collect(st) ==
    LET live == Dedup(Refs(st.params, st.layers))
        Name(o) == CHOOSE n \in 1..Len(live) : live[n] = o
    IN  [params |-> [k \in DOMAIN st.params |-> Name(st.params[k])],
         heap |-> [n \in 1..Len(live) |-> st.heap[live[n]]],
         layers |-> [l \in DOMAIN st.layers |->
                       IF st.layers[l].W = 0 THEN st.layers[l]
                       ELSE [st.layers[l] EXCEPT !.W = Name(st.layers[l].W),
                                                 !.b = Name(st.layers[l].b)]]]

---------------------------------------------------------------------------
(* The optimizer (common.optimizer.Adam) *)

\* the values the k-th optimizer update leaves in the parameters
Trained(k) ==
    IF k % 2 = 1
    THEN [W1 |-> <<1>>, b1 |-> <<0>>, W2 |-> <<1>>, b2 |-> <<0>>,
          W3 |-> <<1>>, b3 |-> <<0>>, W4 |-> <<2, 0>>, b4 |-> <<0, 1>>]
    ELSE [W1 |-> <<1>>, b1 |-> <<1>>, W2 |-> <<1>>, b2 |-> <<-1>>,
          W3 |-> <<2>>, b3 |-> <<0>>, W4 |-> <<0, 1>>, b4 |-> <<1, 0>>]

\* Adam.update(params, grads): the moments are initialised on the first
\* call, the one step counter is incremented, and every parameter tensor is
\* written in place.  The numbers of the rule are not modelled: Trained(k)
\* is the value the k-th step arrives at.
AdamUpdate(opt, p, hp, g) ==
    [optimizer |-> [iter |-> opt.iter + 1, m |-> TRUE, grads |-> <<g>>],
     heap |-> [n \in 1..Len(hp) |->
                 IF \E k \in DOMAIN p : p[k] = n /\ k \in DOMAIN g
                 THEN [hp[n] EXCEPT !.data =
                          Trained(opt.iter + 1)[CHOOSE k \in DOMAIN p : p[k] = n]]
                 ELSE hp[n]]]

---------------------------------------------------------------------------
(* The instance the method calls are checked on, and its data *)

\* SimpleConvNet(input_dim=(1, 2, 2), conv_param={'filter_num': 1,
\* 'filter_size': 1, 'pad': 0, 'stride': 1}, hidden_size=1, output_size=2)
SmallArgs == [C |-> 1, H |-> 2, W |-> 2, filter_num |-> 1, filter_size |-> 1,
              pad |-> 0, stride |-> 1, hidden_size |-> 1, output_size |-> 2]

\* the weights np.random.randn may draw at construction
InitDraws ==
    {[k \in KeySet |-> IF k = "W4" THEN w4 ELSE <<1>>] : w4 \in {<<0, 1>>, <<1, 0>>}}

\* a parameter file another run left: only some of the keys
PartialFile ==
    [k \in {"W4", "b4"} |->
        Tensor(ParamShape(SmallArgs, Derive(SmallArgs), k),
               IF k = "W4" THEN <<1, 1>> ELSE <<0, 2>>)]

\* a parameter file a network of another architecture left (hidden_size=2,
\* output_size=1): the same keys, other shapes
ForeignFile ==
    [k \in {"W4", "b4"} |->
        IF k = "W4" THEN Tensor(<<2, 1>>, <<1, 1>>) ELSE Tensor(<<1>>, <<0>>)]

\* sample k of the data: an image of C*H*W pixels in {0, 1} and its class
Pixels == SmallArgs.C * SmallArgs.H * SmallArgs.W
Pixel(k, j) == IF k % 2 = 1 /\ j = ((k \div 2) % Pixels) + 1 THEN 1 ELSE 0
Label(k) == (k \div 2) % SmallArgs.output_size

\* samples lo .. hi-1 as an image tensor, and their labels as class indices
\* (1-D) or as one-hot rows (2-D)
Images(lo, hi) ==
    Tensor(<<hi - lo, SmallArgs.C, SmallArgs.H, SmallArgs.W>>,
           [n \in 1..((hi - lo) * Pixels) |->
               Pixel(lo + (n - 1) \div Pixels, ((n - 1) % Pixels) + 1)])
Labels(lo, hi, ndim) ==
    IF ndim = 1
    THEN Tensor(<<hi - lo>>, [n \in 1..(hi - lo) |-> Label(lo + n - 1)])
    ELSE Tensor(<<hi - lo, SmallArgs.output_size>>,
                [n \in 1..((hi - lo) * SmallArgs.output_size) |->
                    IF Label(lo + (n - 1) \div SmallArgs.output_size)
                         = (n - 1) % SmallArgs.output_size
                    THEN 1 ELSE 0])

---------------------------------------------------------------------------
(* Method calls on the constructed network *)

\* the state SimpleConvNet(...) leaves, line 165, for one draw of the weights
Constructed ==
    /\ args = SmallArgs
    /\ built = "ok"
    /\ dims = Derive(SmallArgs)
    /\ params = NewParams
    /\ \E w \in InitDraws : heap = NewHeap(SmallArgs, w)
    /\ layers = NewLayers(NewParams)
    /\ last_layer = <<NewLoss>>
    /\ calls = <<>>
    /\ ret = NoRet
    /\ optimizer = NewOptimizer
    /\ grad = <<>>
    /\ seen = <<>>
    /\ i = 0
    /\ batch = <<>>
    /\ train_loss_list = <<>>
    /\ train_acc_list = <<>>
    /\ test_acc_list = <<>>
    /\ steps = <<>>

\* the parameters have the shapes the layers were built for; with any other
\* shape the layers' np.dot and the optimizer's in-place arithmetic raise
\* ValueError, which ends the run
Conforms == \A k \in KeySet : heap[params[k]].shape = ParamShape(args, dims, k)

\* network.predict(x)
Predict(x) ==
    \E p \in {predict(layers, heap, x)} :
        /\ layers' = p.layers
        /\ calls' = p.calls
        /\ ret' = [op |-> "predict", x |-> x, out |-> p.out]
        /\ seen' = IF seen = <<>> THEN <<[x |-> x, out |-> p.out, again |-> FALSE]>>
                   ELSE IF seen[1].x = x THEN <<[seen[1] EXCEPT !.again = TRUE]>>
                   ELSE seen
        /\ UNCHANGED <<args, built, dims, params, heap, last_layer, file,
                       optimizer, grad, loopVars>>

\* network.loss(x, t)
Loss(x, t) ==
    \E f \in {loss(layers, heap, x, t)} :
        /\ layers' = f.layers
        /\ last_layer' = <<f.last_layer>>
        /\ calls' = f.calls
        /\ ret' = [op |-> "loss", x |-> x, t |-> t, out |-> f.out]
        /\ UNCHANGED <<args, built, dims, params, heap, file, optimizer,
                       grad, seen, loopVars>>

\* network.accuracy(x, t, batch_size)
Accuracy(x, t, batch_size) ==
    \E a \in {accuracy(layers, heap, x, t, batch_size)} :
        /\ layers' = a.layers
        /\ calls' = a.calls
        /\ ret' = [op |-> "accuracy", x |-> x, t |-> t, batch_size |-> batch_size,
                   out |-> a.out, chunks |-> a.chunks]
        /\ UNCHANGED <<args, built, dims, params, heap, last_layer, file,
                       optimizer, grad, seen, loopVars>>

\* gradient that also applies the step to the parameters
GradientStep(x, t) ==
    /\ Conforms
    /\ \E g \in {gradient(layers, heap, x, t)} :
        /\ layers' = g.layers
        /\ last_layer' = <<g.last_layer>>
        /\ calls' = g.calls
        /\ grad' = <<g.out>>
        /\ heap' = AdamUpdate(optimizer, params, heap, g.out).heap
        /\ ret' = [op |-> "gradient", x |-> x, t |-> t]
        /\ UNCHANGED <<args, built, dims, params, file, optimizer,
                       seen, loopVars>>

\* grad = network.gradient(x, t)
Gradient(x, t) ==
    /\ Conforms
    /\ \E g \in {gradient(layers, heap, x, t)} :
        /\ layers' = g.layers
        /\ last_layer' = <<g.last_layer>>
        /\ calls' = g.calls
        /\ grad' = <<g.out>>
        /\ ret' = [op |-> "gradient", x |-> x, t |-> t]
        /\ UNCHANGED <<args, built, dims, params, heap, file, optimizer,
                       seen, loopVars>>

\* optimizer.update(network.params, grad)
Update ==
    /\ grad # <<>>
    /\ Conforms
    /\ optimizer.iter < MaxUpdates
    /\ \E u \in {AdamUpdate(optimizer, params, heap, grad[1])} :
           /\ optimizer' = u.optimizer
           /\ heap' = u.heap
    /\ calls' = <<>>
    /\ ret' = [op |-> "update"]
    /\ seen' = <<>>
    /\ UNCHANGED <<args, built, dims, params, layers, last_layer, file, grad, loopVars>>

\* network.save_params()
SaveParams ==
    /\ file' = <<save_params(params, heap)>>
    /\ calls' = <<>>
    /\ ret' = [op |-> "save_params"]
    /\ UNCHANGED <<args, built, dims, netVars, optimizer, grad, seen, loopVars>>

\* network.load_params(); open() raises FileNotFoundError when there is no file
LoadParams ==
    /\ file # <<>>
    /\ \E st \in {Collect(load_params(params, layers, heap, file[1]))} :
           /\ params' = st.params
           /\ heap' = st.heap
           /\ layers' = st.layers
    /\ calls' = <<>>
    /\ ret' = [op |-> "load_params"]
    /\ seen' = <<>>
    /\ UNCHANGED <<args, built, dims, last_layer, file, optimizer, grad, loopVars>>

---------------------------------------------------------------------------
(* Spec: any sequence of predict, loss, accuracy, gradient and update calls, *)
(* on the first n samples with one-hot labels (line 159); accuracy on the    *)
(* first MaxN samples with batch size AccBatch                               *)

Init == Constructed /\ file = <<>> /\ pc = "off"

Next ==
    \/ \E n \in 1..MaxN : Predict(Images(0, n))
    \/ \E n \in 1..MaxN : Loss(Images(0, n), Labels(0, n, 2))
    \/ Accuracy(Images(0, MaxN), Labels(0, MaxN, 2), AccBatch)
    \/ \E n \in 1..MaxN : Gradient(Images(0, n), Labels(0, n, 2))
    \/ Update

Spec == Init /\ [][Next]_vars

---------------------------------------------------------------------------
(* SpecAcc: accuracy on every sample count, batch size and label form, with  *)
(* the parameters as constructed and as updated                              *)

InitAcc == Constructed /\ file = <<>> /\ pc = "acc"

NextAcc ==
    \/ \E n \in 1..AccN, ndim \in {1, 2}, batch_size \in 1..MaxBatch :
          Accuracy(Images(0, n), Labels(0, n, ndim), batch_size)
    \/ Gradient(Images(0, 1), Labels(0, 1, 1))
    \/ Update

SpecAcc == InitAcc /\ [][NextAcc]_vars

---------------------------------------------------------------------------
(* SpecPersist: any sequence of gradient, update, save_params and           *)
(* load_params calls; params.pkl may be there from the start                *)

InitPersist ==
    /\ Constructed
    /\ file \in {<<>>, <<PartialFile>>, <<ForeignFile>>}
    /\ pc = "persist"

NextPersist ==
    \/ \E n \in 1..MaxN : Gradient(Images(0, n), Labels(0, n, 2))
    \/ Update
    \/ SaveParams
    \/ LoadParams

SpecPersist == InitPersist /\ [][NextPersist]_vars

---------------------------------------------------------------------------
(* SpecTrain: the script, lines 159-204 *)

\* line 168, line 169 (x_train.shape[0]), line 170, and the size of the test
\* set, scaled down: the minibatch is half the training set
iters_num == MaxIters
train_size == TrainN
batch_size == train_size \div 2
test_size == train_size

\* line 159: one-hot labels
x_train == Images(0, train_size)
t_train == Labels(0, train_size, 2)
x_test == Images(train_size, train_size + test_size)
t_test == Labels(train_size, train_size + test_size, 2)

\* x[batch_mask]: the rows batch_mask names, in its order
Gather(x, batch_mask) ==
    LET D == Prod(Tail(x.shape))
    IN  Tensor(<<Len(batch_mask)>> \o Tail(x.shape),
               [k \in 1..(Len(batch_mask) * D) |->
                   x.data[batch_mask[((k - 1) \div D) + 1] * D + ((k - 1) % D) + 1]])

\* lines 180 and 199: i % iter_per_epoch == 0 with iter_per_epoch =
\* max(train_size / batch_size, 1), a float; exact for the sizes used here,
\* whose quotient is a binary fraction
EpochStart(k) ==
    IF train_size >= batch_size THEN (k * batch_size) % train_size = 0 ELSE TRUE

\* the loop body with the loss recorded before the update
NextStmtLossFirst(p) ==
    CASE p = "sample" -> "gradient"
      [] p = "gradient" -> "loss"
      [] p = "loss" -> "update"
      [] p = "update" -> "epoch"
      [] p = "epoch" -> "sample"

\* the statement after statement p of the loop body
NextStmt(p) ==
    CASE p = "sample" -> "gradient"
      [] p = "gradient" -> "update"
      [] p = "update" -> "loss"
      [] p = "loss" -> "epoch"
      [] p = "epoch" -> "sample"

InitTrain == Constructed /\ file = <<>> /\ pc = "sample"

\* lines 182-186: the next iteration draws its minibatch, or the loop ends
Sample ==
    /\ pc = "sample"
    /\ i < iters_num
    /\ \E batch_mask \in [1..batch_size -> 0..(train_size - 1)] :
          batch' = <<Gather(x_train, batch_mask), Gather(t_train, batch_mask)>>
    /\ steps' = <<"sample">>
    /\ pc' = NextStmt("sample")
    /\ UNCHANGED <<args, built, dims, netVars, calls, ret, file, optimizer, grad,
                   seen, i, train_loss_list, train_acc_list, test_acc_list>>

\* line 189
TrainGradient ==
    /\ pc = "gradient"
    /\ \E g \in {gradient(layers, heap, batch[1], batch[2])} :
          /\ layers' = g.layers
          /\ last_layer' = <<g.last_layer>>
          /\ calls' = g.calls
          /\ grad' = <<g.out>>
    /\ ret' = [op |-> "gradient", x |-> batch[1], t |-> batch[2]]
    /\ steps' = Append(steps, "gradient")
    /\ pc' = NextStmt("gradient")
    /\ UNCHANGED <<args, built, dims, params, heap, file, optimizer, seen, i, batch,
                   train_loss_list, train_acc_list, test_acc_list>>

\* line 192
TrainUpdate ==
    /\ pc = "update"
    /\ \E u \in {AdamUpdate(optimizer, params, heap, grad[1])} :
          /\ optimizer' = u.optimizer
          /\ heap' = u.heap
    /\ calls' = <<>>
    /\ ret' = [op |-> "update"]
    /\ seen' = <<>>
    /\ steps' = Append(steps, "update")
    /\ pc' = NextStmt("update")
    /\ UNCHANGED <<args, built, dims, params, layers, last_layer, file, grad, i, batch,
                   train_loss_list, train_acc_list, test_acc_list>>

\* lines 195-196
TrainLoss ==
    /\ pc = "loss"
    /\ \E f \in {loss(layers, heap, batch[1], batch[2])} :
          /\ layers' = f.layers
          /\ last_layer' = <<f.last_layer>>
          /\ calls' = f.calls
          /\ ret' = [op |-> "loss", x |-> batch[1], t |-> batch[2], out |-> f.out]
          /\ train_loss_list' = Append(train_loss_list, f.out)
    /\ steps' = Append(steps, "loss")
    /\ pc' = NextStmt("loss")
    /\ UNCHANGED <<args, built, dims, params, heap, file, optimizer, grad, seen, i,
                   batch, train_acc_list, test_acc_list>>

\* lines 199-204, and the loop's step to the next i
Epoch ==
    /\ pc = "epoch"
    /\ IF EpochStart(i)
       THEN \E a \in {accuracy(layers, heap, x_train, t_train, AccBatch)} :
            \E b \in {accuracy(a.layers, heap, x_test, t_test, AccBatch)} :
               /\ layers' = b.layers
               /\ calls' = a.calls \o b.calls
               /\ ret' = [op |-> "accuracy", x |-> x_test, t |-> t_test,
                          batch_size |-> AccBatch, out |-> b.out, chunks |-> b.chunks]
               /\ train_acc_list' = Append(train_acc_list, a.out)
               /\ test_acc_list' = Append(test_acc_list, b.out)
       ELSE UNCHANGED <<layers, calls, ret, train_acc_list, test_acc_list>>
    /\ i' = i + 1
    /\ pc' = NextStmt("epoch")
    /\ UNCHANGED <<args, built, dims, params, heap, last_layer, file, optimizer, grad,
                   seen, batch, train_loss_list, steps>>

\* range(iters_num) is exhausted: line 206 on
EndLoop ==
    /\ pc = "sample"
    /\ i = iters_num
    /\ pc' = "done"
    /\ UNCHANGED <<args, built, dims, netVars, calls, ret, file, optimizer, grad,
                   seen, i, batch, train_loss_list, train_acc_list, test_acc_list, steps>>

NextTrain == Sample \/ TrainGradient \/ TrainUpdate \/ TrainLoss \/ Epoch \/ EndLoop

SpecTrain == InitTrain /\ [][NextTrain]_vars

---------------------------------------------------------------------------
(* SpecInit: the constructor on each argument tuple of a range around the  *)
(* defaults of lines 25-27                                                 *)

hidden_size == 100
output_size == 10
DefaultFilterNum == 30
DefaultFilterSize == 5
DefaultDim == 28

InitCtor ==
    /\ args \in [C : {1}, H : 1..MaxDim, W : 1..MaxDim, filter_num : FilterNums,
                 filter_size : FilterSizes, pad : Pads, stride : Strides,
                 hidden_size : {hidden_size}, output_size : {output_size}]
    /\ built = "pending"
    /\ dims = [conv_output_height |-> 0, conv_output_width |-> 0,
               pool_output_height |-> 0, pool_output_width |-> 0,
               pool_output_size |-> 0]
    /\ params = EmptyMap
    /\ heap = <<>>
    /\ layers = EmptyMap
    /\ last_layer = <<>>
    /\ calls = <<>>
    /\ ret = NoRet
    /\ file = <<>>
    /\ optimizer = NewOptimizer
    /\ grad = <<>>
    /\ seen = <<>>
    /\ pc = "off"
    /\ i = 0
    /\ batch = <<>>
    /\ train_loss_list = <<>>
    /\ train_acc_list = <<>>
    /\ test_acc_list = <<>>
    /\ steps = <<>>

NextCtor == New

SpecInit == InitCtor /\ [][NextCtor]_vars

---------------------------------------------------------------------------
(* Claims about the constructor (SpecInit) *)

\* input_dim=(1, 28, 28), conv_param={'filter_num': 30, 'filter_size': 5,
\* 'pad': 0, 'stride': 1}, hidden_size=100, output_size=10
DefaultArgs ==
    [C |-> 1, H |-> DefaultDim, W |-> DefaultDim, filter_num |-> DefaultFilterNum,
     filter_size |-> DefaultFilterSize, pad |-> 0, stride |-> 1,
     hidden_size |-> hidden_size, output_size |-> output_size]

\* one spatial axis of extent n derives integer, positive sizes: the
\* convolution's (n + 2*pad - filter_size) / stride + 1 and the pooling's
\* (conv_out - 2) / 2 + 1 are both exact and both > 0
ValidAxis(a, n) ==
    LET e == n + 2 * a.pad - a.filter_size
        conv_out == e \div a.stride + 1
    IN  /\ e % a.stride = 0
        /\ conv_out > 0
        /\ (conv_out - 2) % 2 = 0
        /\ (conv_out - 2) \div 2 + 1 > 0

Valid(a) == ValidAxis(a, a.H) /\ ValidAxis(a, a.W) /\ a.filter_num > 0

\* C3 (as the spec states it): whenever a derived dimension is non-positive
\* or non-integer, construction fails and no network object is produced.
\* The constructor floors every quotient (the // of lines 36-39) and checks
\* nothing: this does not hold.
C3_InvalidArgsBuildNothing ==
    (built # "pending" /\ ~Valid(args)) => built # "ok"

\* C4: for every valid argument tuple the constructor succeeds with
\* conv_out = (H + 2*pad - filter_size)/stride + 1 and pool_out =
\* (conv_out - 2)/2 + 1 on each axis (exact quotients, stated as products),
\* and W2 has filter_num * pool_out_h * pool_out_w rows; the defaults give
\* conv 24x24, pool 12x12 and 4320 features.
C4_ShapeDerivation ==
    (built # "pending" /\ Valid(args)) =>
        /\ built = "ok"
        /\ (dims.conv_output_height - 1) * args.stride
              = args.H + 2 * args.pad - args.filter_size
        /\ (dims.conv_output_width - 1) * args.stride
              = args.W + 2 * args.pad - args.filter_size
        /\ (dims.pool_output_height - 1) * 2 = dims.conv_output_height - 2
        /\ (dims.pool_output_width - 1) * 2 = dims.conv_output_width - 2
        /\ heap[params["W2"]].shape =
              <<args.filter_num * dims.pool_output_height * dims.pool_output_width,
                args.hidden_size>>
        /\ layers["Affine1"].W = params["W2"]
        /\ args = DefaultArgs =>
              /\ dims.conv_output_height = 24 /\ dims.conv_output_width = 24
              /\ dims.pool_output_height = 12 /\ dims.pool_output_width = 12
              /\ heap[params["W2"]].shape[1] = 4320

\* the default network is built, with 4320 features into Affine1
C4_Witness ==
    /\ built = "ok"
    /\ args = DefaultArgs
    /\ heap[layers["Affine1"].W].shape[1] = 4320

---------------------------------------------------------------------------
(* Claims about the method calls (Spec) *)

\* the network's parameters with no cache and no gradient on any layer
Pristine == NewLayers(params)

\* the values of the parameter tensors, by key
ParamValues == [k \in DOMAIN params |-> heap[params[k]]]

C1_ForwardPass ==
    << <<"Conv1", "forward">>, <<"Relu1", "forward">>, <<"Pool1", "forward">>,
       <<"Affine1", "forward">>, <<"Relu2", "forward">>, <<"Affine2", "forward">>,
       <<"Relu3", "forward">>, <<"Affine3", "forward">> >>

C1_BackwardPass ==
    << <<"Affine3", "backward">>, <<"Relu3", "backward">>, <<"Affine2", "backward">>,
       <<"Relu2", "backward">>, <<"Affine1", "backward">>, <<"Pool1", "backward">>,
       <<"Relu1", "backward">>, <<"Conv1", "backward">> >>

\* C1: predict calls forward once on each of the 8 layers in insertion order
\* and nothing on the loss layer; loss appends the loss layer's forward;
\* gradient runs that forward pass, then the loss layer's backward, then
\* backward once on each layer in reverse order.
C1_LayerOrder ==
    /\ ret.op = "predict" => calls = C1_ForwardPass
    /\ ret.op = "loss" =>
          calls = C1_ForwardPass \o << <<"SoftmaxWithLoss", "forward">> >>
    /\ ret.op = "gradient" =>
          calls = C1_ForwardPass
                  \o << <<"SoftmaxWithLoss", "forward">>, <<"SoftmaxWithLoss", "backward">> >>
                  \o C1_BackwardPass

\* a gradient call has returned, its last layer call Conv1's backward
C1_Witness ==
    /\ ret.op = "gradient"
    /\ calls # <<>>
    /\ calls[Len(calls)] = <<"Conv1", "backward">>

\* C5: the mapping a gradient call returns has exactly the keys of the
\* parameter mapping, W1..b4; Wk / bk are the dW / db of the k-th
\* parameter-owning layer; and it is what the same call returns on a network
\* with these parameters and no earlier call (nothing is accumulated).
C5_FreshGradients ==
    ret.op = "gradient" =>
        /\ DOMAIN grad[1] = {"W1", "b1", "W2", "b2", "W3", "b3", "W4", "b4"}
        /\ DOMAIN grad[1] = DOMAIN params
        /\ \A n \in 1..Len(ParamLayers) :
              /\ <<grad[1][WKey(n)]>> = <<layers[ParamLayers[n]].dW>>
              /\ <<grad[1][bKey(n)]>> = <<layers[ParamLayers[n]].db>>
        /\ \E g \in {gradient(Pristine, heap, ret.x, ret.t)} :
              \A n \in 1..Len(ParamLayers) :
                 /\ grad[1][WKey(n)] = g.layers[ParamLayers[n]].dW
                 /\ grad[1][bKey(n)] = g.layers[ParamLayers[n]].db

\* a gradient call has returned after an earlier gradient call and an update
C5_Witness ==
    /\ ret.op = "gradient"
    /\ optimizer.iter > 0
    /\ grad # <<>>
    /\ grad[1] # optimizer.grads[1]

\* C6: a predict, loss, accuracy or gradient call leaves the value of every
\* parameter tensor, and the parameter mapping, as they were.
C6_OnlyUpdateWrites ==
    [][ret'.op \in {"predict", "loss", "accuracy", "gradient"} =>
          /\ params' = params
          /\ ParamValues' = ParamValues]_vars

\* a gradient call has returned on updated parameters, its dW / db written
C6_Witness ==
    /\ ret.op = "gradient"
    /\ optimizer.iter > 0
    /\ layers["Affine3"].dW # <<>>
    /\ heap[params["W4"]].data = Trained(optimizer.iter)["W4"]

\* C9: a predict call returns what the first predict call on that input
\* since the parameters last changed returned, whatever was called in
\* between; and it returns what a network with these parameters and empty
\* caches returns (no cache reaches a later forward's result).
C9_PredictIdempotent ==
    ret.op = "predict" =>
        /\ (seen # <<>> /\ seen[1].x = ret.x) => ret.out = seen[1].out
        /\ ret.out = predict(Pristine, heap, ret.x).out

\* predict has returned on an input it was called on before, a loss or
\* gradient call on another batch having overwritten the caches in between
C9_Witness ==
    /\ ret.op = "predict"
    /\ seen # <<>>
    /\ seen[1].again
    /\ seen[1].x = ret.x
    /\ last_layer[1].t # <<>>
    /\ last_layer[1].t[1].shape[1] # ret.x.shape[1]

---------------------------------------------------------------------------
(* Claims about accuracy (SpecAcc) *)

\* sample k alone is classified as its label: the argmax of the scores a
\* network with these parameters gives it is the label
Hit(k) ==
    ArgmaxSeq(predict(Pristine, heap, Images(k, k + 1)).out.data) = Label(k)

---------------------------------------------------------------------------
(* Claims about the parameter tensors' identity and shape (SpecPersist) *)

\* C7: the weight / bias each of Conv1, Affine1, Affine2, Affine3 references
\* is the very tensor the parameter mapping holds under W1/b1, W2/b2, W3/b3,
\* W4/b4, after construction and after every gradient, update and
\* load_params call, also of a file with only some of the keys.
C7_LayersShareParams ==
    /\ layers["Conv1"].W = params["W1"] /\ layers["Conv1"].b = params["b1"]
    /\ layers["Affine1"].W = params["W2"] /\ layers["Affine1"].b = params["b2"]
    /\ layers["Affine2"].W = params["W3"] /\ layers["Affine2"].b = params["b3"]
    /\ layers["Affine3"].W = params["W4"] /\ layers["Affine3"].b = params["b4"]

\* load_params has returned on a file with only W4 and b4, after an update:
\* Affine3 references the loaded tensor, Conv1 the updated one
C7_Witness ==
    /\ ret.op = "load_params"
    /\ file = <<PartialFile>>
    /\ optimizer.iter > 0
    /\ heap[layers["Affine3"].W] = PartialFile["W4"]
    /\ heap[layers["Conv1"].W].data = Trained(optimizer.iter)["W1"]

\* C8 (as the spec states it): every parameter tensor has the shape it was
\* constructed with, after any sequence of gradient, update, save_params and
\* load_params calls.  load_params (lines 150-151) stores whatever tensors
\* the file holds: this does not hold.
C8_ShapesNeverChange ==
    \A k \in KeySet : heap[params[k]].shape = ParamShape(args, dims, k)

---------------------------------------------------------------------------
(* Claims about the training loop (SpecTrain) *)

C10_Body == <<"sample", "gradient", "update", "loss">>

\* C10: the steps of an iteration are sample, gradient on that batch, one
\* update with that gradient, loss on the same batch with the updated
\* parameters, appended to the loss history; after k iterations the
\* optimizer's counter is k and the loss history has k entries; the two
\* accuracy histories have the same length.
C10_LoopOrder ==
    /\ Len(steps) <= Len(C10_Body)
    /\ steps = SubSeq(C10_Body, 1, Len(steps))
    /\ Len(steps) >= 2 =>
          /\ grad # <<>>
          /\ grad[1] = CollectGrads(layers)
          /\ layers["Conv1"].dW[1].targs = <<batch[1]>>
    /\ Len(steps) = 2 => ret = [op |-> "gradient", x |-> batch[1], t |-> batch[2]]
    /\ Len(steps) >= 3 => optimizer.grads = grad
    /\ Len(steps) = 4 =>
          /\ train_loss_list # <<>>
          /\ train_loss_list[Len(train_loss_list)]
                = loss(Pristine, heap, batch[1], batch[2]).out
    /\ pc \in {"sample", "done"} =>
          /\ optimizer.iter = i
          /\ Len(train_loss_list) = i
          /\ i > 0 => steps = C10_Body
    /\ optimizer.iter = i + (IF Len(steps) >= 3 /\ pc \notin {"sample", "done"} THEN 1 ELSE 0)
    /\ Len(train_loss_list) =
          i + (IF Len(steps) = 4 /\ pc \notin {"sample", "done"} THEN 1 ELSE 0)
    /\ Len(train_acc_list) = Len(test_acc_list)

\* the loop has ended after iters_num iterations, more than one of them an
\* epoch's first
C10_Witness ==
    /\ pc = "done"
    /\ i = iters_num
    /\ optimizer.iter = iters_num
    /\ Len(train_loss_list) = iters_num
    /\ Len(train_acc_list) > 1

=============================================================================
